---- MODULE Spec2Model ----
(***************************************************************************)
(* A model of convert/generate_geojson_schema.py: the conversion of an     *)
(* EA-exported XMI class model plus XSD type hints into JSON Schema        *)
(* document(s) by parse_ea_xmi_to_geojson_schema.                          *)
(*                                                                         *)
(* Python values are modelled as follows.  A str is a TLA+ string and the  *)
(* value None is the string None below (no input uses that string).  A     *)
(* dict is a function on its keys, a list is a sequence, a set is a set.   *)
(* A free text (an ownedComment body, a description) is a sequence of      *)
(* characters, so that str.strip() is computed and not assumed.  A dict    *)
(* held by reference in two places (a fragment of xsd_to_json_type that    *)
(* infer_json_type hands out) is a pointer, Ptr, resolved when the         *)
(* document is serialised.                                                 *)
(***************************************************************************)
EXTENDS Naturals, Sequences, FiniteSets, TLC

VARIABLES
    pc,                  \* position in parse_ea_xmi_to_geojson_schema
    k,                   \* which of the three target classes the current call is for
    split_defs,          \* the mode flag
    seen,                \* extraction: the number of class elements met in pass 1
    elem,                \* extraction: the class element whose children are being read
    subs,                \* extraction: the children of elem read so far
    class_ids, class_names_by_id, attributes_by_id,
    documentation_by_id, inheritance,
    xsd_type_map, xsd_to_json_type,
    class_name, collected, visited, cid,          \* locals of collect_all_attributes
    observing_attrs, equipment_attrs, observation_attrs,
    attr_list, exclude, schema_props, required,   \* locals of attrs_to_json_schema
    i, attr, prop,                                \* its loop position, loop variable, last fragment
    defs,                                         \* split mode: name -> <<props, req>>
    obs_props, obs_required, equip_props, obsrv_props, schema,   \* unified mode
    files                                         \* the documents written so far

tables == <<class_ids, class_names_by_id, attributes_by_id, documentation_by_id,
            inheritance>>
extraction == <<seen, elem, subs>>
collectLocals == <<class_name, collected, visited, cid>>
flattened == <<observing_attrs, equipment_attrs, observation_attrs>>
attrsLocals == <<attr_list, exclude, schema_props, required, i, attr, prop>>
unified == <<obs_props, obs_required, equip_props, obsrv_props, schema>>
assembly == <<k, split_defs, xsd_type_map, xsd_to_json_type, collectLocals, flattened,
              attrsLocals, defs, unified, files>>
vars == <<pc, k, split_defs, extraction, tables, xsd_type_map, xsd_to_json_type,
          collectLocals, flattened, attrsLocals, defs, unified, files>>

-----------------------------------------------------------------------------
(* Python values *)

None == "None"
Truthy(s) == s # None /\ s # ""
EmptyDict == [x \in {} |-> None]
Get(d, key) == IF key \in DOMAIN d THEN d[key] ELSE None
Put(d, key, v) == [x \in DOMAIN d \cup {key} |-> IF x = key THEN v ELSE d[x]]

-----------------------------------------------------------------------------
(* The three target classes, in the order the code handles them *)

Targets == <<"ObservingFacility", "Equipment", "Observation">>

-----------------------------------------------------------------------------
(* Bounds of the model *)

MaxClasses == 2      \* class elements in the XMI document read by the extraction
MaxChildren == 2     \* children read per class element
MaxLen == 2          \* characters in an ownedComment body
MaxAttrs == 2        \* attributes declared on one class (assembly inputs)

-----------------------------------------------------------------------------
(* Model Extractor: lines 25-75 *)

Chars == {" ", "a"}
Texts == UNION {[1..n -> Chars] : n \in 0..MaxLen}

RECURSIVE LStrip(_)
LStrip(t) == IF t # <<>> /\ Head(t) = " " THEN LStrip(Tail(t)) ELSE t
RECURSIVE RStrip(_)
RStrip(t) == IF t # <<>> /\ t[Len(t)] = " " THEN RStrip(SubSeq(t, 1, Len(t) - 1)) ELSE t
\* str.strip()
Strip(t) == RStrip(LStrip(t))

\* The attribute record appended at lines 52-59 (lowerValue and upperValue are read
\* at lines 50-51 into locals that are never used).
AttributeRecord(sub) ==
    [name |-> sub.name, type |-> sub.type, aggregation |-> sub.aggregation,
     id |-> sub.id, lower |-> sub.lower, upper |-> sub.upper]

OwnedAttributeElem(name, type, aggregation, id, lower, upper) ==
    [tag |-> "ownedAttribute", name |-> name, type |-> type,
     aggregation |-> aggregation, id |-> id, lower |-> lower, upper |-> upper]

\* body: <<>> when sub.find(".//body") is None, else <<text>> (text <<>> when the
\* body element has no text).
OwnedCommentElem(body) == [tag |-> "ownedComment", body |-> body]

NoElem == [id |-> None, name |-> None]

\* Lines 33-42: the next element of root.iter() is a packagedElement of type
\* uml:Class with these xmi:id and name attributes.
PackagedElement(class_id, name) ==
    /\ pc = "pass1"
    /\ seen < MaxClasses
    /\ seen' = seen + 1
    /\ elem' = [id |-> class_id, name |-> name]
    /\ subs' = <<>>
    /\ IF ~Truthy(name)
       THEN UNCHANGED <<class_ids, class_names_by_id, attributes_by_id>>
       ELSE /\ class_ids' = Put(class_ids, name, class_id)
            /\ class_names_by_id' = Put(class_names_by_id, class_id, name)
            /\ attributes_by_id' = Put(attributes_by_id, class_id, <<>>)
    /\ UNCHANGED <<pc, documentation_by_id, inheritance, assembly>>

\* Lines 43-59: the next child of the class element is an ownedAttribute.
OwnedAttribute(sub) ==
    /\ pc = "pass1"
    /\ Truthy(elem.name)
    /\ Len(subs) < MaxChildren
    /\ subs' = Append(subs, sub)
    /\ attributes_by_id' =
          IF sub.name = None THEN attributes_by_id
          ELSE [attributes_by_id EXCEPT ![elem.id] = Append(@, AttributeRecord(sub))]
    /\ UNCHANGED <<pc, seen, elem, class_ids, class_names_by_id, documentation_by_id,
                   inheritance, assembly>>

\* Lines 60-63: the next child of the class element is an ownedComment.
OwnedComment(sub) ==
    /\ pc = "pass1"
    /\ Truthy(elem.name)
    /\ Len(subs) < MaxChildren
    /\ subs' = Append(subs, sub)
    /\ documentation_by_id' =
          IF sub.body # <<>> /\ sub.body[1] # <<>>
          THEN Put(documentation_by_id, elem.id, Strip(sub.body[1]))
          ELSE documentation_by_id
    /\ UNCHANGED <<pc, seen, elem, class_ids, class_names_by_id, attributes_by_id,
                   inheritance, assembly>>

\* Line 66: the first traversal is over, the second starts.
EndPass1 ==
    /\ pc = "pass1"
    /\ pc' = "pass2"
    /\ elem' = NoElem
    /\ subs' = <<>>
    /\ UNCHANGED <<seen, tables, assembly>>

\* Lines 66-75: the next element of the second traversal is a generalization with
\* these owner and general attributes, whose parent has xmi:id parent_id (None when
\* there is no parent or the parent has no xmi:id).
Generalization(owner, parent_id, general) ==
    /\ pc = "pass2"
    /\ LET subclass_id == IF Truthy(owner) THEN owner ELSE parent_id
           superclass_id == general
       IN  inheritance' =
              IF Truthy(subclass_id) /\ Truthy(superclass_id)
              THEN Put(inheritance, subclass_id, superclass_id)
              ELSE inheritance
    /\ UNCHANGED <<pc, extraction, class_ids, class_names_by_id, attributes_by_id,
                   documentation_by_id, assembly>>

\* Line 76: the second traversal is over; the run goes on at line 147.
EndPass2 ==
    /\ pc = "pass2"
    /\ pc' = "collect_call"
    /\ UNCHANGED <<extraction, tables, assembly>>

-----------------------------------------------------------------------------
(* Attribute Flattener: collect_all_attributes, lines 77-85 *)

\* Line 81 without the visited guard.
WhileCondUnguarded(c, v) == Truthy(c)

\* Line 81: the loop condition.
WhileCond(c, v) == Truthy(c) /\ c \notin v

\* Line 83 with the ancestor's attributes put first.
ExtendAncestorFirst(col, c) ==
    (IF c \in DOMAIN attributes_by_id THEN attributes_by_id[c] ELSE <<>>) \o col

\* Line 83: collected.extend(attributes_by_id.get(cid, [])).
Extend(col, c) == col \o (IF c \in DOMAIN attributes_by_id THEN attributes_by_id[c] ELSE <<>>)

\* Lines 147-149 and 78-80: the k-th call of collect_all_attributes.
CollectCall ==
    /\ pc = "collect_call"
    /\ class_name' = Targets[k]
    /\ collected' = <<>>
    /\ visited' = {}
    /\ cid' = Get(class_ids, Targets[k])
    /\ pc' = "while"
    /\ UNCHANGED <<k, split_defs, extraction, tables, xsd_type_map, xsd_to_json_type,
                   flattened, attrsLocals, defs, unified, files>>

\* Lines 81-84: one iteration of the walk up the inheritance chain.
CollectStep ==
    /\ pc = "while"
    /\ WhileCond(cid, visited)
    /\ visited' = visited \cup {cid}
    /\ collected' = Extend(collected, cid)
    /\ cid' = Get(inheritance, cid)
    /\ UNCHANGED <<pc, k, split_defs, extraction, tables, xsd_type_map, xsd_to_json_type,
                   class_name, flattened, attrsLocals, defs, unified, files>>

\* Line 85 and the assignment at the call site; after the third call, line 151.
CollectReturn ==
    /\ pc = "while"
    /\ ~WhileCond(cid, visited)
    /\ observing_attrs' = IF k = 1 THEN collected ELSE observing_attrs
    /\ equipment_attrs' = IF k = 2 THEN collected ELSE equipment_attrs
    /\ observation_attrs' = IF k = 3 THEN collected ELSE observation_attrs
    /\ pc' = IF k < 3 THEN "collect_call" ELSE "attrs_call"
    /\ k' = IF k < 3 THEN k + 1 ELSE 1
    /\ UNCHANGED <<split_defs, extraction, tables, xsd_type_map, xsd_to_json_type,
                   collectLocals, attrsLocals, defs, unified, files>>

-----------------------------------------------------------------------------
(* Type Resolver and property derivation: lines 100-141 *)

\* Lines 100-110: the table as constructed.
XsdToJsonType ==
    [boolean |-> [type |-> "boolean"],
     string |-> [type |-> "string"],
     decimal |-> [type |-> "number"],
     float |-> [type |-> "number"],
     double |-> [type |-> "number"],
     int |-> [type |-> "integer"],
     integer |-> [type |-> "integer"],
     date |-> [type |-> "string", format |-> "date"],
     dateTime |-> [type |-> "string", format |-> "date-time"]]

\* A reference to the dict object stored in xsd_to_json_type under t (dict.get at
\* line 122 returns the stored object itself, not a copy).
Ptr(t) == ("@xsd_to_json_type" :> t)
IsPtr(v) == "@xsd_to_json_type" \in DOMAIN v
Deref(v) == IF IsPtr(v) THEN xsd_to_json_type[v["@xsd_to_json_type"]] ELSE v

\* Lines 119 and 123: whether the fragment is wrapped in an array.
IsMulti(upper) == upper # "1"

ArrayOf(items) == ("type" :> "array" @@ "items" :> items)

\* Lines 114-126.
infer_json_type(a) ==
    IF a.aggregation = "composite" /\ a.type \in DOMAIN class_names_by_id
    THEN LET ref == ("$ref" :> ("#/$defs/" \o class_names_by_id[a.type]))
         IN  IF IsMulti(a.upper) THEN ArrayOf(ref) ELSE ref
    ELSE IF a.name \in DOMAIN xsd_type_map
    THEN LET xsd_type == xsd_type_map[a.name]
             base_type == IF xsd_type \in DOMAIN xsd_to_json_type
                          THEN Ptr(xsd_type)
                          ELSE ("type" :> "string")
         IN  IF IsMulti(a.upper) THEN ArrayOf(base_type) ELSE base_type
    ELSE ("type" :> "string")

\* Line 133: whether the attribute is processed at all.
Considered(a, excl) == Truthy(a.name) /\ a.name \notin excl

\* Line 139 testing only for an absent lower.
IsRequiredUnlessAbsent(a) == a.lower # None

\* Line 139.
IsRequired(a) == a.lower \notin {None, "0"}

\* Lines 135-136: doc = documentation_by_id.get(attr.get("id")); if doc.
HasDoc(a) == a.id \in DOMAIN documentation_by_id /\ documentation_by_id[a.id] # <<>>

\* The call of attrs_to_json_schema for the k-th target class (lines 154-156 in split
\* mode, 212-214 in unified mode) and lines 129-130.  exclude=None excludes nothing
\* (line 133) and is the empty set here.
AttrsCall ==
    /\ pc = "attrs_call"
    /\ attr_list' = flattened[k]
    /\ exclude' = IF k = 1 THEN {"geospatialLocation"} ELSE {}
    /\ schema_props' = EmptyDict
    /\ required' = <<>>
    /\ i' = 0
    /\ pc' = "for"
    /\ UNCHANGED <<k, split_defs, extraction, tables, xsd_type_map, xsd_to_json_type,
                   collectLocals, flattened, attr, prop, defs, unified, files>>

\* Lines 131-140: one iteration of the loop over attr_list.
AttrsStep ==
    /\ pc = "for"
    /\ i < Len(attr_list)
    /\ i' = i + 1
    /\ attr' = attr_list[i + 1]
    /\ LET a == attr_list[i + 1]
           p == infer_json_type(a)
       IN  IF Considered(a, exclude)
           THEN /\ IF HasDoc(a)
                   THEN IF IsPtr(p)
                        THEN /\ xsd_to_json_type' =
                                   [xsd_to_json_type EXCEPT ![p["@xsd_to_json_type"]] =
                                       Put(@, "description", documentation_by_id[a.id])]
                             /\ prop' = p
                        ELSE /\ prop' = Put(p, "description", documentation_by_id[a.id])
                             /\ UNCHANGED xsd_to_json_type
                   ELSE /\ prop' = p
                        /\ UNCHANGED xsd_to_json_type
                /\ schema_props' = Put(schema_props, a.name, prop')
                /\ required' = IF IsRequired(a) THEN Append(required, a.name) ELSE required
           ELSE UNCHANGED <<prop, xsd_to_json_type, schema_props, required>>
    /\ UNCHANGED <<pc, k, split_defs, extraction, tables, xsd_type_map, collectLocals,
                   flattened, attr_list, exclude, defs, unified, files>>

\* Line 141 and the assignment at the call site.
AttrsReturn ==
    /\ pc = "for"
    /\ i = Len(attr_list)
    /\ IF split_defs
       THEN /\ defs' = Put(defs, Targets[k], <<schema_props, required>>)
            /\ UNCHANGED <<obs_props, obs_required, equip_props, obsrv_props>>
       ELSE /\ obs_props' = IF k = 1 THEN schema_props ELSE obs_props
            /\ obs_required' = IF k = 1 THEN required ELSE obs_required
            /\ equip_props' = IF k = 2 THEN schema_props ELSE equip_props
            /\ obsrv_props' = IF k = 3 THEN schema_props ELSE obsrv_props
            /\ UNCHANGED defs
    /\ pc' = IF k < 3 THEN "attrs_call" ELSE IF split_defs THEN "write_class" ELSE "build"
    /\ k' = IF k < 3 THEN k + 1 ELSE 1
    /\ UNCHANGED <<split_defs, extraction, tables, xsd_type_map, xsd_to_json_type,
                   collectLocals, flattened, attrsLocals, schema, files>>

-----------------------------------------------------------------------------
(* Schema Assembler: lines 143-273 *)

SchemaUri == "https://json-schema.org/draft/2020-12/schema"
IdPrefix == "https://schemas.wmo.int/wmdr/json-schema/"
OutputFile == "output_file"

\* Lines 198-207 and 238-249 without the enclosing keys.
PointProperties ==
    ("type" :> ("type" :> "string" @@ "enum" :> <<"Point">>)
     @@ "coordinates" :> ("type" :> "array" @@ "items" :> ("type" :> "number")
                          @@ "minItems" :> 2 @@ "maxItems" :> 3))

\* Lines 174-189 and 221-236: the FeatureCollection envelope with the two references.
Envelope(geometry_ref, properties_ref) ==
    ("type" :> ("type" :> "string" @@ "enum" :> <<"FeatureCollection">>)
     @@ "features" :>
          ("type" :> "array"
           @@ "items" :>
                ("type" :> "object"
                 @@ "properties" :>
                      ("type" :> ("type" :> "string" @@ "enum" :> <<"Feature">>)
                       @@ "geometry" :> ("$ref" :> geometry_ref)
                       @@ "properties" :> ("$ref" :> properties_ref))
                 @@ "required" :> <<"type", "geometry", "properties">>)))

\* Lines 159-166.
ClassSchema(name, props, req) ==
    ("$schema" :> SchemaUri
     @@ "$id" :> (IdPrefix \o name \o ".schema.json")
     @@ "title" :> name
     @@ "type" :> "object"
     @@ "properties" :> props
     @@ "required" :> req)

\* Lines 169-190.
WrapperSchema ==
    ("$schema" :> SchemaUri
     @@ "$id" :> (IdPrefix \o "FeatureCollection.schema.json")
     @@ "title" :> "ObservingFacility FeatureCollection"
     @@ "type" :> "object"
     @@ "properties" :> Envelope("geometry.schema.json", "ObservingFacility.schema.json")
     @@ "required" :> <<"type", "features">>)

\* Lines 193-208.
GeomSchema ==
    ("$schema" :> SchemaUri
     @@ "$id" :> (IdPrefix \o "geometry.schema.json")
     @@ "title" :> "Geometry"
     @@ "type" :> "object"
     @@ "properties" :> PointProperties
     @@ "required" :> <<"type", "coordinates">>)

\* Lines 216-265.
UnifiedSchema(obs, obs_req, equip, obsrv) ==
    ("$schema" :> SchemaUri
     @@ "$id" :> (IdPrefix \o "FeatureCollection.schema.json")
     @@ "title" :> "ObservingFacility FeatureCollection"
     @@ "type" :> "object"
     @@ "properties" :> Envelope("#/$defs/geometry", "#/$defs/ObservingFacility")
     @@ "required" :> <<"type", "features">>
     @@ "$defs" :>
          ("geometry" :> ("type" :> "object" @@ "properties" :> PointProperties
                          @@ "required" :> <<"type", "coordinates">>)
           @@ "Equipment" :> ("type" :> "object" @@ "properties" :> equip)
           @@ "Observation" :> ("type" :> "object" @@ "properties" :> obsrv)
           @@ "ObservingFacility" :> ("type" :> "object" @@ "properties" :> obs
                                      @@ "required" :> obs_req)))

\* Lines 267-271 leaving a property alone that inference already made an array.
FixupUnlessArray(obs_defs, name, target) ==
    IF name \in DOMAIN obs_defs /\ "items" \notin DOMAIN obs_defs[name]
    THEN Put(obs_defs, name, ArrayOf("$ref" :> ("#/$defs/" \o target)))
    ELSE obs_defs

\* Lines 267-271: the rewrite of the two relationship properties.
Fixup(obs_defs, name, target) ==
    IF name \in DOMAIN obs_defs
    THEN Put(obs_defs, name, ArrayOf("$ref" :> ("#/$defs/" \o target)))
    ELSE obs_defs

Fixups(obs_defs) ==
    Fixup(Fixup(obs_defs, "equipment", "Equipment"), "observation", "Observation")

\* json.dump (line 145) of a fragment and of a property map: a dict that is an entry
\* of xsd_to_json_type is serialised as that entry stands at the time of the write.
DumpFragment(v) ==
    LET o == Deref(v)
    IN  IF "items" \in DOMAIN o THEN [o EXCEPT !["items"] = Deref(@)] ELSE o

DumpProps(props) == [name \in DOMAIN props |-> DumpFragment(props[name])]

DumpClassSchema(s) == [s EXCEPT !["properties"] = DumpProps(@)]

DumpUnifiedSchema(s) ==
    LET d == s["$defs"]
    IN  [s EXCEPT !["$defs"] =
            [name \in DOMAIN d |->
                IF name = "geometry" THEN d[name]
                ELSE [d[name] EXCEPT !["properties"] = DumpProps(d[name]["properties"])]]]

\* Lines 158-167: one iteration of the loop over defs.items().
SplitWriteClass ==
    /\ pc = "write_class"
    /\ LET name == Targets[k]
       IN  /\ schema' = ClassSchema(name, defs[name][1], defs[name][2])
           /\ files' = Put(files, name \o ".schema.json", DumpClassSchema(schema'))
    /\ pc' = IF k < 3 THEN "write_class" ELSE "write_wrapper"
    /\ k' = IF k < 3 THEN k + 1 ELSE 1
    /\ UNCHANGED <<split_defs, extraction, tables, xsd_type_map, xsd_to_json_type,
                   collectLocals, flattened, attrsLocals, defs, obs_props, obs_required,
                   equip_props, obsrv_props>>

\* Lines 169-191.
SplitWriteWrapper ==
    /\ pc = "write_wrapper"
    /\ files' = Put(files, "FeatureCollection.schema.json", WrapperSchema)
    /\ pc' = "write_geometry"
    /\ UNCHANGED <<k, split_defs, extraction, tables, xsd_type_map, xsd_to_json_type,
                   collectLocals, flattened, attrsLocals, defs, unified>>

\* Lines 193-209.
SplitWriteGeometry ==
    /\ pc = "write_geometry"
    /\ files' = Put(files, "geometry.schema.json", GeomSchema)
    /\ pc' = "done"
    /\ UNCHANGED <<k, split_defs, extraction, tables, xsd_type_map, xsd_to_json_type,
                   collectLocals, flattened, attrsLocals, defs, unified>>

\* Lines 216-271.  obs_defs (line 267) is the dict obs_props itself, so the rewrite
\* shows in both.
UnifiedBuild ==
    /\ pc = "build"
    /\ obs_props' = Fixups(obs_props)
    /\ schema' = UnifiedSchema(obs_props', obs_required, equip_props, obsrv_props)
    /\ pc' = "write_unified"
    /\ UNCHANGED <<k, split_defs, extraction, tables, xsd_type_map, xsd_to_json_type,
                   collectLocals, flattened, attrsLocals, defs, obs_required,
                   equip_props, obsrv_props, files>>

\* Line 273.
UnifiedWrite ==
    /\ pc = "write_unified"
    /\ files' = Put(files, OutputFile, DumpUnifiedSchema(schema))
    /\ pc' = "done"
    /\ UNCHANGED <<k, split_defs, extraction, tables, xsd_type_map, xsd_to_json_type,
                   collectLocals, flattened, attrsLocals, defs, unified>>

WritePcs == {"write_class", "write_wrapper", "write_geometry", "write_unified"}

\* Lines 143-145: open() raises (an unwritable destination); nothing in
\* parse_ea_xmi_to_geojson_schema catches it, and the files written before stay.
WriteRaises ==
    /\ pc \in WritePcs
    /\ pc' = "raised"
    /\ UNCHANGED <<k, split_defs, extraction, tables, xsd_type_map, xsd_to_json_type,
                   collectLocals, flattened, attrsLocals, defs, unified, files>>

-----------------------------------------------------------------------------
(* Inputs: XMI documents as the lists of their class elements, and the tables the *)
(* extraction builds from them                                                   *)

Attr(name, type, aggregation, id, lower, upper) ==
    [name |-> name, type |-> type, aggregation |-> aggregation,
     id |-> id, lower |-> lower, upper |-> upper]

NoAttr == Attr(None, None, None, None, None, None)

\* A class element: its xmi:id, its name, its named ownedAttribute children in
\* document order, and doc: <<>> or <<text>>, the stripped non-empty body of its last
\* ownedComment.
Class(id, name, attrs, doc) == [id |-> id, name |-> name, attrs |-> attrs, doc |-> doc]

\* The tables of lines 40-42, 52 and 63 after the class elements cs, read in order.
RECURSIVE ClassIdsOf(_)
ClassIdsOf(cs) ==
    IF cs = <<>> THEN EmptyDict
    ELSE LET c == cs[Len(cs)]
         IN  Put(ClassIdsOf(SubSeq(cs, 1, Len(cs) - 1)), c.name, c.id)
RECURSIVE ClassNamesByIdOf(_)
ClassNamesByIdOf(cs) ==
    IF cs = <<>> THEN EmptyDict
    ELSE LET c == cs[Len(cs)]
         IN  Put(ClassNamesByIdOf(SubSeq(cs, 1, Len(cs) - 1)), c.id, c.name)
RECURSIVE AttributesByIdOf(_)
AttributesByIdOf(cs) ==
    IF cs = <<>> THEN EmptyDict
    ELSE LET c == cs[Len(cs)]
         IN  Put(AttributesByIdOf(SubSeq(cs, 1, Len(cs) - 1)), c.id, c.attrs)
RECURSIVE DocumentationByIdOf(_)
DocumentationByIdOf(cs) ==
    IF cs = <<>> THEN EmptyDict
    ELSE LET c == cs[Len(cs)]
             rest == DocumentationByIdOf(SubSeq(cs, 1, Len(cs) - 1))
         IN  IF c.doc = <<>> THEN rest ELSE Put(rest, c.id, c.doc[1])

Input(cs, inh, hints, split) ==
    [classes |-> cs, inheritance |-> inh, xsd_type_map |-> hints, split_defs |-> split]

\* All sequences over S of length at most n.
SeqsUpTo(S, n) == UNION {[1..m -> S] : m \in 0..n}

\* XSD hints: name -> primitive type name with its prefix removed (lines 87-98).
Hints == ("elevation" :> "float" @@ "height" :> "float" @@ "equipment" :> "string"
          @@ "established" :> "date" @@ "url" :> "anyURI")

\* One attribute on ObservingFacility, in every combination of name, typeRef,
\* aggregation and upper bound, with and without the XSD hints, and with or without
\* a documentation entry for its identifier (the attribute then carries the xmi:id
\* of the commented class).
InferenceInputs ==
    {Input(<<Class("c1", "ObservingFacility",
                   <<Attr(name, type, aggr, id, None, upper)>>, <<<<"a">>>>),
             Class("c2", "Equipment", <<>>, <<>>),
             Class("c4", "Deployment", <<>>, <<>>)>>,
           EmptyDict, hints, split) :
        name \in {"equipment", "observation", "elevation", "established", "url",
                  "geospatialLocation"},
        type \in {None, "c2", "c4", "c9"},
        aggr \in {None, "composite"},
        upper \in {None, "1", "*"},
        id \in {"a1", "c1"},
        hints \in {EmptyDict, Hints},
        split \in BOOLEAN}

\* The three target classes with distinct own attributes, under every inheritance
\* map over their identifiers (cycles included, and edges to an identifier that is
\* no class); ObservingFacility may also have no xmi:id or be absent.
Ids == {"c1", "c2", "c3"}
PartialMaps(S, T) == UNION {[D -> T] : D \in SUBSET S}

OwnAttrs(tag) ==
    [m \in 1..MaxAttrs |->
        IF m = 1 THEN Attr("elevation", None, None, "a-" \o tag, "1",
                           IF tag = "c1" THEN "1" ELSE "*")
        ELSE Attr(tag \o "-own", None, None, "a-" \o tag, None, "1")]

FlattenInputs ==
    {Input(first \o <<Class("c2", "Equipment", OwnAttrs("c2"), <<>>),
                      Class("c3", "Observation", OwnAttrs("c3"), <<>>)>>,
           inh, Hints, split) :
        first \in {<<>>, <<Class("c1", "ObservingFacility", OwnAttrs("c1"), <<>>)>>,
                   <<Class(None, "ObservingFacility", OwnAttrs("c1"), <<>>)>>},
        inh \in PartialMaps(Ids, Ids \cup {"c9"}),
        split \in BOOLEAN}

\* ObservingFacility or Equipment with every attribute list of at most MaxAttrs
\* attributes over these names and lower bounds (names may repeat).
RequiredInputs ==
    {Input(<<Class("c1", target, attrs, <<>>)>>, EmptyDict, Hints, split) :
        target \in {"ObservingFacility", "Equipment"},
        attrs \in SeqsUpTo({Attr(name, None, None, "a1", lower, "1") :
                               name \in {"elevation", "geospatialLocation", ""},
                               lower \in {None, "0", "1"}}, MaxAttrs),
        split \in BOOLEAN}

\* Equipment with a comment and attributes some of which carry the xmi:id of the
\* class, so that documentation_by_id has an entry for their identifier.
DocumentedInputs ==
    {Input(<<Class("c2", "Equipment", attrs, <<<<"a">>>>)>>, EmptyDict, Hints, split) :
        attrs \in SeqsUpTo({Attr(name, None, None, id, None, upper) :
                               name \in {"elevation", "height"},
                               id \in {"c2", "a1"},
                               upper \in {"1", "*"}}, MaxAttrs),
        split \in BOOLEAN}

Inputs == InferenceInputs \cup FlattenInputs \cup RequiredInputs \cup DocumentedInputs

-----------------------------------------------------------------------------
(* Specifications *)

Idle ==
    /\ k = 1
    /\ seen = 0 /\ elem = NoElem /\ subs = <<>>
    /\ xsd_to_json_type = XsdToJsonType
    /\ class_name = None /\ collected = <<>> /\ visited = {} /\ cid = None
    /\ observing_attrs = <<>> /\ equipment_attrs = <<>> /\ observation_attrs = <<>>
    /\ attr_list = <<>> /\ exclude = {} /\ schema_props = EmptyDict /\ required = <<>>
    /\ i = 0 /\ attr = NoAttr /\ prop = EmptyDict
    /\ defs = EmptyDict
    /\ obs_props = EmptyDict /\ obs_required = <<>>
    /\ equip_props = EmptyDict /\ obsrv_props = EmptyDict /\ schema = EmptyDict
    /\ files = EmptyDict

\* The state at line 147, after the extraction of one of the input documents.
Init ==
    /\ Idle
    /\ pc = "collect_call"
    /\ \E in \in Inputs :
          /\ class_ids = ClassIdsOf(in.classes)
          /\ class_names_by_id = ClassNamesByIdOf(in.classes)
          /\ attributes_by_id = AttributesByIdOf(in.classes)
          /\ documentation_by_id = DocumentationByIdOf(in.classes)
          /\ inheritance = in.inheritance
          /\ xsd_type_map = in.xsd_type_map
          /\ split_defs = in.split_defs

Next ==
    \/ CollectCall
    \/ CollectStep
    \/ CollectReturn
    \/ AttrsCall
    \/ AttrsStep
    \/ AttrsReturn
    \/ SplitWriteClass
    \/ SplitWriteWrapper
    \/ SplitWriteGeometry
    \/ UnifiedBuild
    \/ UnifiedWrite
    \/ WriteRaises

Spec == Init /\ [][Next]_vars

\* The run is one thread of control: whenever a step is possible it is taken.
FairSpec == Init /\ [][Next]_vars /\ WF_vars(Next)

\* The state at line 25, before the first traversal of the XMI tree.  SpecExtract
\* follows the two traversals, element by element, up to line 147, where Spec starts.
InitExtract ==
    /\ Idle
    /\ pc = "pass1"
    /\ class_ids = EmptyDict /\ class_names_by_id = EmptyDict
    /\ attributes_by_id = EmptyDict /\ documentation_by_id = EmptyDict
    /\ inheritance = EmptyDict
    /\ xsd_type_map = EmptyDict
    /\ split_defs = FALSE

ElemIds == {None, "c1", "c2"}
ElemNames == {None, "Equipment", "Observation"}

NextExtract ==
    \/ \E class_id \in ElemIds, name \in ElemNames : PackagedElement(class_id, name)
    \/ \E name \in {None, "elevation"} :
          OwnedAttribute(OwnedAttributeElem(name, None, None, "a1", None, None))
    \/ \E body \in {<<>>} \cup {<<t>> : t \in Texts} : OwnedComment(OwnedCommentElem(body))
    \/ EndPass1
    \/ \E owner \in ElemIds, parent_id \in ElemIds, general \in ElemIds :
          Generalization(owner, parent_id, general)
    \/ EndPass2

SpecExtract == InitExtract /\ [][NextExtract]_vars

-----------------------------------------------------------------------------
(* Properties *)

Range(seq) == {seq[j] : j \in 1..Len(seq)}

\* The loop of attrs_to_json_schema has just handled attr, and did not skip it.
JustDerived ==
    /\ pc = "for"
    /\ i > 0
    /\ attr.name \notin {None, ""}
    /\ attr.name \notin exclude

\* The loop of attrs_to_json_schema is over: schema_props and required are the result.
Derived == pc = "for" /\ i = Len(attr_list)

ArrayWrapped(f) == "items" \in DOMAIN f /\ "type" \in DOMAIN f /\ f["type"] = "array"

\* C1: the fragment inferred for an attribute is scalar when its upper is absent or
\* "1" and array-wrapped for any other upper, for a composite reference and for an
\* XSD primitive alike (the two origins the claim names; the string fallback of line
\* 126 is left out of the statement); an attribute hinted as float with upper unset
\* yields exactly {"type": "number"}.
C1_ScalarIffUpperAbsentOrOne ==
    ( /\ JustDerived
      /\ \/ attr.aggregation = "composite" /\ attr.type \in DOMAIN class_names_by_id
         \/ attr.name \in DOMAIN xsd_type_map )
    => /\ ArrayWrapped(DumpFragment(prop)) <=> attr.upper \notin {None, "1"}
       /\ ( /\ attr.upper = None
            /\ ~(attr.aggregation = "composite" /\ attr.type \in DOMAIN class_names_by_id)
            /\ xsd_type_map[attr.name] = "float"
            /\ attr.id \notin DOMAIN documentation_by_id )
          => DumpFragment(prop) = [type |-> "number"]

\* The attributes of attr_list that attrs_to_json_schema lists as required under the
\* exclusion set: those with a non-empty, non-excluded name and a lower bound that is
\* neither absent nor "0".
Listed(a) ==
    /\ a.name \notin {None, ""}
    /\ a.name \notin exclude
    /\ a.lower \notin {None, "0"}

\* C2 as claimed, for attributes that have a non-empty name: the required list never
\* contains the name of an attribute whose lower is absent or "0", and contains the
\* name of every non-excluded attribute whose lower has another value.
C2_RequiredByName ==
    Derived =>
        \A j \in 1..Len(attr_list) :
            attr_list[j].name \notin {None, ""} =>
                /\ attr_list[j].lower \in {None, "0"}
                      => attr_list[j].name \notin Range(required)
                /\ (attr_list[j].lower \notin {None, "0"} /\ attr_list[j].name \notin exclude)
                      => attr_list[j].name \in Range(required)

\* C2 as amended: a name is in the required list exactly when some attribute of the
\* list with that name, the name being non-empty and not excluded, has a lower that is
\* neither absent nor "0".
C2_RequiredByOccurrence ==
    Derived =>
        /\ \A j \in 1..Len(attr_list) :
              Listed(attr_list[j]) => attr_list[j].name \in Range(required)
        /\ \A name \in Range(required) :
              \E j \in 1..Len(attr_list) : attr_list[j].name = name /\ Listed(attr_list[j])

\* C2's case: a derived required list holding a name that an optional attribute of
\* the same list shares.
C2_Witness ==
    /\ Derived
    /\ \E j1, j2 \in 1..Len(attr_list) :
          /\ attr_list[j1].name = attr_list[j2].name
          /\ attr_list[j1].lower = "1"
          /\ attr_list[j2].lower \in {None, "0"}
          /\ attr_list[j1].name \in Range(required)

\* The attributes a class identifier declares itself (none when it is no class).
Own(c) == IF c \in DOMAIN attributes_by_id THEN attributes_by_id[c] ELSE <<>>

\* The inheritance chain from identifier c: c, its superclass, and so on, for at most
\* n identifiers.
RECURSIVE Chain(_, _)
Chain(c, n) ==
    IF n = 0 \/ c \in {None, ""} THEN <<>>
    ELSE <<c>> \o Chain(IF c \in DOMAIN inheritance THEN inheritance[c] ELSE None, n - 1)

ChainBound == Cardinality(DOMAIN inheritance) + 1

\* No class identifier is its own ancestor.
Acyclic ==
    \A c \in DOMAIN inheritance : c \notin Range(Chain(inheritance[c], ChainBound))

RECURSIVE OwnAlong(_)
OwnAlong(chain) == IF chain = <<>> THEN <<>> ELSE Own(Head(chain)) \o OwnAlong(Tail(chain))

\* The three calls of collect_all_attributes have returned.
Flattened == pc \notin {"pass1", "pass2", "collect_call", "while"}

FlattenedOf(t) ==
    IF t = 1 THEN observing_attrs ELSE IF t = 2 THEN equipment_attrs ELSE observation_attrs

\* C3 as claimed: under an acyclic inheritance map, flattening a registered class name
\* returns its own attributes followed by those of each ancestor in chain order (its
\* own attributes alone when it has no inheritance edge), and flattening an
\* unregistered name returns the empty sequence.
C3_FlattenRegistered ==
    (Flattened /\ Acyclic) =>
        \A t \in 1..3 :
            IF Targets[t] \in DOMAIN class_ids
            THEN /\ FlattenedOf(t) =
                       Own(class_ids[Targets[t]])
                       \o OwnAlong(Chain(IF class_ids[Targets[t]] \in DOMAIN inheritance
                                         THEN inheritance[class_ids[Targets[t]]]
                                         ELSE None, ChainBound))
                 /\ class_ids[Targets[t]] \notin DOMAIN inheritance
                       => FlattenedOf(t) = Own(class_ids[Targets[t]])
            ELSE FlattenedOf(t) = <<>>

\* C3 as amended: the same for a registered class name whose class element has an
\* xmi:id; a name that is unregistered, or registered without an identifier, flattens
\* to the empty sequence.
C3_FlattenIdentified ==
    (Flattened /\ Acyclic) =>
        \A t \in 1..3 :
            IF Targets[t] \in DOMAIN class_ids /\ class_ids[Targets[t]] \notin {None, ""}
            THEN /\ FlattenedOf(t) = OwnAlong(Chain(class_ids[Targets[t]], ChainBound))
                 /\ class_ids[Targets[t]] \notin DOMAIN inheritance
                       => FlattenedOf(t) = Own(class_ids[Targets[t]])
            ELSE FlattenedOf(t) = <<>>

\* C3's case: ObservingFacility with a superclass that has a superclass of its own,
\* flattened to the three classes' own attributes, subclass first.
C3_Witness ==
    /\ Flattened
    /\ Acyclic
    /\ "ObservingFacility" \in DOMAIN class_ids
    /\ Chain(class_ids["ObservingFacility"], ChainBound) = <<"c1", "c2", "c3">>
    /\ Own("c1") # <<>> /\ Own("c2") # <<>> /\ Own("c3") # <<>>
    /\ observing_attrs = Own("c1") \o Own("c2") \o Own("c3")

\* The number of times attribute record a occurs in seq.
Count(seq, a) == Cardinality({j \in 1..Len(seq) : seq[j] = a})

RECURSIVE SumOver(_, _)
SumOver(S, a) ==
    IF S = {} THEN 0
    ELSE LET c == CHOOSE x \in S : TRUE
         IN  Count(Own(c), a) + SumOver(S \ {c}, a)

\* C4: for every inheritance map, cyclic ones included, the walk of
\* collect_all_attributes ends, visits a class identifier only when it has not visited
\* it before, and holds each visited class's own attributes exactly once.
C4_WalkEndsVisitingOnce ==
    /\ [](pc = "while" =>
             \A a \in Range(collected) \cup UNION {Range(Own(c)) : c \in visited} :
                 Count(collected, a) = SumOver(visited, a))
    /\ [][(pc = "while" /\ pc' = "while") =>
             /\ cid \notin visited
             /\ visited' = visited \cup {cid}
             /\ collected' = collected \o Own(cid)]_vars
    /\ [](pc = "collect_call" =>
             <>(pc = "while" /\ ~(cid \notin {None, ""} /\ cid \notin visited)))

\* C4's case: a walk that has come back to an identifier it visited, in a cyclic map.
C4_Witness ==
    /\ pc = "while"
    /\ cid \in visited
    /\ Cardinality(visited) > 1
    /\ ~Acyclic

\* The unified document has been written.
Emitted == pc = "done" /\ ~split_defs

ObservingFacilityProperties == files[OutputFile]["$defs"]["ObservingFacility"]["properties"]

\* C5: in unified mode, when the flattened ObservingFacility attributes include the
\* name equipment (observation), the emitted ObservingFacility property of that name
\* is exactly an array of references to Equipment (Observation), whatever the
\* attribute's own fields and hints; when they do not, the key is absent.
C5_RelationshipPropertiesRewritten ==
    Emitted =>
        /\ IF \E j \in 1..Len(observing_attrs) : observing_attrs[j].name = "equipment"
           THEN /\ "equipment" \in DOMAIN ObservingFacilityProperties
                /\ ObservingFacilityProperties["equipment"] =
                      ("type" :> "array" @@ "items" :> ("$ref" :> "#/$defs/Equipment"))
           ELSE "equipment" \notin DOMAIN ObservingFacilityProperties
        /\ IF \E j \in 1..Len(observing_attrs) : observing_attrs[j].name = "observation"
           THEN /\ "observation" \in DOMAIN ObservingFacilityProperties
                /\ ObservingFacilityProperties["observation"] =
                      ("type" :> "array" @@ "items" :> ("$ref" :> "#/$defs/Observation"))
           ELSE "observation" \notin DOMAIN ObservingFacilityProperties

\* C5's case: a non-composite, single-valued equipment attribute with an XSD hint,
\* for which inference alone gives a scalar primitive, emitted as the array of
\* references.
C5_Witness ==
    /\ Emitted
    /\ \E j \in 1..Len(observing_attrs) :
          /\ observing_attrs[j].name = "equipment"
          /\ observing_attrs[j].aggregation = None
          /\ observing_attrs[j].upper = "1"
    /\ "equipment" \in DOMAIN xsd_type_map
    /\ ObservingFacilityProperties["equipment"] =
          ("type" :> "array" @@ "items" :> ("$ref" :> "#/$defs/Equipment"))

SplitDocuments ==
    {"ObservingFacility.schema.json", "Equipment.schema.json", "Observation.schema.json",
     "FeatureCollection.schema.json", "geometry.schema.json"}

\* C6: a split-mode run that has ended, normally or by a failed write, has written
\* all five documents or none of them.
C6_AllOrNothing ==
    (split_defs /\ pc \in {"done", "raised"}) =>
        \/ SplitDocuments \subseteq DOMAIN files
        \/ DOMAIN files \cap SplitDocuments = {}

\* The fragment attrs_to_json_schema derives from one attribute record, as serialised.
FragmentOf(a) ==
    LET f == DumpFragment(infer_json_type(a))
    IN  IF HasDoc(a) /\ "description" \notin DOMAIN f
        THEN Put(f, "description", documentation_by_id[a.id])
        ELSE f

\* C7: when a subclass redeclares an attribute name of an ancestor, the property map
\* built from the flattened list has the name as one key, holding the fragment
\* derived from the subclass's record.
C7_SubclassDeclarationWins ==
    (Derived /\ Targets[k] \in DOMAIN class_ids /\ Truthy(class_ids[Targets[k]])) =>
        LET own == Own(class_ids[Targets[k]])
        IN  \A j \in 1..Len(own) :
                ( /\ Considered(own[j], exclude)
                  /\ \A h \in 1..Len(own) : own[h].name = own[j].name => h = j
                  /\ \E h \in (Len(own) + 1)..Len(attr_list) :
                        attr_list[h].name = own[j].name )
                => /\ own[j].name \in DOMAIN schema_props
                   /\ DumpFragment(schema_props[own[j].name]) = FragmentOf(own[j])

\* C8: the table xsd_to_json_type is never changed during a run.
C8_TableNeverMutated == xsd_to_json_type = XsdToJsonType

\* The texts of the ownedComment children read so far that have a non-empty body.
CommentTexts ==
    SelectSeq([j \in 1..Len(subs) |->
                  IF subs[j].tag = "ownedComment" /\ subs[j].body # <<>>
                  THEN subs[j].body[1] ELSE <<>>],
              LAMBDA t : t # <<>>)

\* C9: the documentation entry of a class element with several non-empty comments is
\* the stripped text of the first of them.
C9_FirstCommentKept ==
    (pc = "pass1" /\ elem.name \notin {None, ""} /\ CommentTexts # <<>>) =>
        /\ elem.id \in DOMAIN documentation_by_id
        /\ documentation_by_id[elem.id] = Strip(CommentTexts[1])

\* The $ref values of a serialised property map.
RefsOfProps(props) ==
    {props[n]["$ref"] : n \in {m \in DOMAIN props : "$ref" \in DOMAIN props[m]}}
    \cup {props[n]["items"]["$ref"] :
             n \in {m \in DOMAIN props : "items" \in DOMAIN props[m]
                                          /\ "$ref" \in DOMAIN props[m]["items"]}}

\* The names a reference of the form #/$defs/X can carry in this model.
DefNames ==
    {"geometry"} \cup Range(Targets) \cup {class_names_by_id[c] : c \in DOMAIN class_names_by_id}

InternalRefs == {"#/$defs/" \o n : n \in DefNames}

\* The internal references of a written document, and the ones its $defs resolve.
RefsOfFile(f) ==
    IF "$defs" \in DOMAIN files[f]
    THEN {"#/$defs/geometry", "#/$defs/ObservingFacility"}
         \cup UNION {RefsOfProps(files[f]["$defs"][n]["properties"]) :
                        n \in {"Equipment", "Observation", "ObservingFacility"}}
    ELSE IF f \in {"FeatureCollection.schema.json", "geometry.schema.json"}
    THEN {}
    ELSE RefsOfProps(files[f]["properties"])

ResolvedBy(f) ==
    IF "$defs" \in DOMAIN files[f]
    THEN {"#/$defs/" \o n : n \in DOMAIN files[f]["$defs"]}
    ELSE {}

\* C10: in every written document, every reference of the form #/$defs/X names a key
\* of that document's $defs.
C10_InternalRefsResolve ==
    \A f \in DOMAIN files : (RefsOfFile(f) \cap InternalRefs) \subseteq ResolvedBy(f)


====
